---- MODULE Spec2Model ----
(***************************************************************************)
(* Model of io_mesh_threejs/skeleton.py: BoneProxy (one exported bone) and *)
(* Skeleton (the name -> BoneProxy dictionary, filled by addArmature).     *)
(*                                                                         *)
(* Python values are represented as follows.                               *)
(*   - a source bone is a bone id of the host scene; 0 stands for None     *)
(*     (bone.parent of a root bone);                                       *)
(*   - an armature is an armature id; 0 stands for None;                   *)
(*   - a BoneProxy is a record; since proxies are never removed from       *)
(*     Skeleton.bones and each is stored under exactly one key, the        *)
(*     reference parent_proxy is the key of the proxy it refers to, and    *)
(*     NoKey stands for None;                                              *)
(*   - a vector is a tuple of integers, a matrix a tuple of rows, a        *)
(*     quaternion the tuple <<w, x, y, z>>; <<>> stands for None where a   *)
(*     matrix or vector argument is optional;                              *)
(*   - a return value is "True", "False", or "AttributeError" when the     *)
(*     call raised that exception.                                         *)
(***************************************************************************)
EXTENDS Integers, Sequences, FiniteSets, TLC

VARIABLES
    pc,       \* "new": Skeleton.__init__ has not run; "ready": it returned;
              \* "failed": it raised, there is no Skeleton object
    bones,    \* Skeleton.bones: qualified name -> BoneProxy
    order,    \* history: the keys of bones in the order they were inserted
    ncalls,   \* history: number of addArmature calls made on the object
    last,     \* history: the last call, its arguments, result and pre-state
    prev,     \* history: the arguments and result of the call before it
    out       \* what Skeleton.render() returned, if it was the last call

vars == <<pc, bones, order, ncalls, last, prev, out>>

----------------------------------------------------------------------------
(* Bounds of the model *)

\* addArmature calls made on one Skeleton object
MaxCalls == 2

\* an addArmature call is made only while the dictionary stays this small
MaxBones == 4

----------------------------------------------------------------------------
(* mathutils: the part of the library the module uses, on integer          *)
(* matrices.  The rotations of the model are the identity and the half     *)
(* turns about the three axes, whose quaternions and Euler angles are      *)
(* integers (in units of pi for the angles).                               *)

NoneM == <<>>

Identity3 == << <<1, 0, 0>>, <<0, 1, 0>>, <<0, 0, 1>> >>

Identity4 == << <<1, 0, 0, 0>>, <<0, 1, 0, 0>>, <<0, 0, 1, 0>>, <<0, 0, 0, 1>> >>

RotX == << <<1, 0, 0>>, <<0, -1, 0>>, <<0, 0, -1>> >>

RotY == << <<-1, 0, 0>>, <<0, 1, 0>>, <<0, 0, -1>> >>

RotZ == << <<-1, 0, 0>>, <<0, -1, 0>>, <<0, 0, 1>> >>

\* Matrix * Vector (3x3 or 4x4)
MatVec(m, v) ==
    [i \in 1..Len(m) |->
        IF Len(m) = 3
        THEN m[i][1] * v[1] + m[i][2] * v[2] + m[i][3] * v[3]
        ELSE m[i][1] * v[1] + m[i][2] * v[2] + m[i][3] * v[3] + m[i][4] * v[4]]

\* Matrix * Matrix (3x3)
MatMul(a, b) ==
    [i \in 1..3 |-> [j \in 1..3 |->
        a[i][1] * b[1][j] + a[i][2] * b[2][j] + a[i][3] * b[3][j]]]

VecAdd(u, v) == [i \in 1..3 |-> u[i] + v[i]]

\* Matrix.to_3x3(): the upper left 3x3 block
to_3x3(m) == [i \in 1..3 |-> [j \in 1..3 |-> m[i][j]]]

\* Vector.to_4d() and Vector.to_3d()
to_4d(v) == <<v[1], v[2], v[3], 1>>

to_3d(v) == <<v[1], v[2], v[3]>>

\* Quaternion * Quaternion (Hamilton product), q = <<w, x, y, z>>
QuatMul(p, q) ==
    << p[1] * q[1] - p[2] * q[2] - p[3] * q[3] - p[4] * q[4],
       p[1] * q[2] + p[2] * q[1] + p[3] * q[4] - p[4] * q[3],
       p[1] * q[3] - p[2] * q[4] + p[3] * q[1] + p[4] * q[2],
       p[1] * q[4] + p[2] * q[3] - p[3] * q[2] + p[4] * q[1] >>

QuatIdentity == <<1, 0, 0, 0>>

\* Matrix.to_quaternion() of a rotation matrix (3x3, or the rotation part of
\* a 4x4): w^2 = (1 + trace) / 4, x^2 = (1 + m11 - m22 - m33) / 4, ...; on
\* the rotations of the model each square is 0 or 1, so it is its own root.
to_quaternion(m) ==
    << (1 + m[1][1] + m[2][2] + m[3][3]) \div 4,
       (1 + m[1][1] - m[2][2] - m[3][3]) \div 4,
       (1 - m[1][1] + m[2][2] - m[3][3]) \div 4,
       (1 - m[1][1] - m[2][2] + m[3][3]) \div 4 >>

\* Matrix.to_euler() (XYZ order), in units of pi: a half turn about one axis
\* is the angle pi about that axis
to_euler(m) ==
    LET q == to_quaternion(m) IN <<q[2], q[3], q[4]>>

\* Euler.to_matrix(), angles in units of pi
EulerToMatrix(e) ==
    MatMul(IF e[3] % 2 = 1 THEN RotZ ELSE Identity3,
           MatMul(IF e[2] % 2 = 1 THEN RotY ELSE Identity3,
                  IF e[1] % 2 = 1 THEN RotX ELSE Identity3))

----------------------------------------------------------------------------
(* The host scene: the bones and armatures handed to the exporter *)

NoBone == 0

NoArmature == 0

NoName == "<None>"

NoKey == "<None>"

\* armature 1: x <- y;  armature 2: y <- w;  armature 3: two bones named x,
\* one the parent of the other;  armature 4: no bones
SceneBones ==
    [b \in 1..6 |->
        CASE b = 1 -> [name |-> "x", parent |-> NoBone, matrix |-> Identity3,
                       head |-> <<0, 0, 0>>, length |-> 2]
          [] b = 2 -> [name |-> "y", parent |-> 1, matrix |-> RotX,
                       head |-> <<1, 0, 0>>, length |-> 1]
          [] b = 3 -> [name |-> "y", parent |-> NoBone, matrix |-> RotZ,
                       head |-> <<0, 1, 0>>, length |-> 3]
          [] b = 4 -> [name |-> "w", parent |-> 3, matrix |-> RotY,
                       head |-> <<0, 0, 1>>, length |-> 1]
          [] b = 5 -> [name |-> "x", parent |-> NoBone, matrix |-> RotY,
                       head |-> <<2, 0, 1>>, length |-> 1]
          [] b = 6 -> [name |-> "x", parent |-> 5, matrix |-> Identity3,
                       head |-> <<0, 1, 1>>, length |-> 2]]

SceneArmatures ==
    [a \in 1..4 |->
        CASE a = 1 -> [name |-> "A", bones |-> {1, 2}]
          [] a = 2 -> [name |-> "B", bones |-> {3, 4}]
          [] a = 3 -> [name |-> "A", bones |-> {5, 6}]
          [] a = 4 -> [name |-> "E", bones |-> {}]]

Armatures == DOMAIN SceneArmatures

\* the values of the `name` argument of addArmature
NameArgs == {NoName, "A", "B"}

\* a root offset with a rotation and a translation
OffsetFlip ==
    << <<1, 0, 0, 1>>, <<0, -1, 0, 2>>, <<0, 0, -1, 3>>, <<0, 0, 0, 1>> >>

\* the values of the `offset` argument of addArmature
OffsetArgs == {NoneM, OffsetFlip}

RECURSIVE Perms(_)
\* the orders in which a collection can be enumerated
Perms(S) ==
    IF S = {}
    THEN {<<>>}
    ELSE UNION {{<<x>> \o p : p \in Perms(S \ {x})} : x \in S}

----------------------------------------------------------------------------
(* class BoneProxy *)

\* the mutant of BoneProxy: the index argument is dropped, the default stays
BoneProxyNoIndex(bone, index, prefix, offset) ==
    [bone |-> bone,
     offset |-> IF offset = NoneM THEN Identity4 ELSE offset,
     prefix |-> prefix,
     parent_proxy |-> NoKey,
     index |-> -1]

\* BoneProxy.__init__
BoneProxy(bone, index, prefix, offset) ==
    [bone |-> bone,
     offset |-> IF offset = NoneM THEN Identity4 ELSE offset,
     prefix |-> prefix,
     parent_proxy |-> NoKey,
     index |-> index]

hasParent(self) == SceneBones[self.bone].parent # NoBone

getParentName(self) ==
    IF SceneBones[self.bone].parent # NoBone
    THEN SceneBones[SceneBones[self.bone].parent].name
    ELSE NoName

getBoneName(self) == SceneBones[self.bone].name

getProxyName(self) == self.prefix \o getBoneName(self)

\* BoneProxy.setParentProxy; b is the dictionary the reference parent_proxy
\* points into.  None has no attribute _bone.
setParentProxy(b, self, parent_proxy) ==
    IF parent_proxy = NoKey
    THEN [self |-> self, ret |-> "AttributeError"]
    ELSE IF SceneBones[self.bone].parent = b[parent_proxy].bone
         THEN [self |-> [self EXCEPT !.parent_proxy = parent_proxy], ret |-> "True"]
         ELSE [self |-> self, ret |-> "False"]

\* BoneProxy.getMatrix
getMatrix(self) ==
    IF hasParent(self)
    THEN SceneBones[self.bone].matrix
    ELSE MatMul(to_3x3(self.offset), SceneBones[self.bone].matrix)

\* the mutant of getPosition: the offset is applied to every bone
getPositionAlwaysOffset(self, position) ==
    LET bone == SceneBones[self.bone]
        p0   == IF position = NoneM THEN <<0, 0, 0>> ELSE MatVec(bone.matrix, position)
        p1   == VecAdd(p0, bone.head)
        p2   == IF bone.parent # NoBone
                THEN VecAdd(p1, <<0, SceneBones[bone.parent].length, 0>>)
                ELSE p1
    IN  to_3d(MatVec(self.offset, to_4d(p2)))

\* BoneProxy.getPosition
getPosition(self, position) ==
    LET bone == SceneBones[self.bone]
        p0   == IF position = NoneM THEN <<0, 0, 0>> ELSE MatVec(bone.matrix, position)
        p1   == VecAdd(p0, bone.head)
    IN  IF bone.parent # NoBone
        THEN to_3d(VecAdd(p1, <<0, SceneBones[bone.parent].length, 0>>))
        ELSE to_3d(MatVec(self.offset, to_4d(p1)))

\* BoneProxy.getQuaternion
getQuaternion(self, quaternion) ==
    LET q0 == IF quaternion = NoneM THEN QuatIdentity ELSE quaternion
        q1 == QuatMul(to_quaternion(SceneBones[self.bone].matrix), q0)
    IN  IF ~hasParent(self)
        THEN QuatMul(to_quaternion(self.offset), q1)
        ELSE q1

\* BoneProxy.getEuler: degrees, 180 / pi times the angles
getEuler(self, euler) ==
    LET m0 == IF euler = NoneM THEN Identity3 ELSE EulerToMatrix(euler)
        m1 == MatMul(SceneBones[self.bone].matrix, m0)
        m2 == IF ~hasParent(self) THEN MatMul(to_3x3(self.offset), m1) ELSE m1
        e  == to_euler(m2)
    IN  <<180 * e[1], 180 * e[2], 180 * e[3]>>

\* BoneProxy.getScale
getScale(self, scale) ==
    IF scale = NoneM THEN <<1, 1, 1>> ELSE scale

\* BoneProxy.getParentIndex
getParentIndex(b, self) ==
    IF self.parent_proxy # NoKey THEN b[self.parent_proxy].index ELSE -1

\* BoneProxy.render: the fields of the record TEMPLATE_BONE prints (the
\* text formatting of the numbers is not modelled)
renderBone(b, self) ==
    [parent |-> getParentIndex(b, self),
     name   |-> getProxyName(self),
     pos    |-> getPosition(self, NoneM),
     rot    |-> getEuler(self, NoneM),
     scl    |-> getScale(self, NoneM),
     rotq   |-> getQuaternion(self, NoneM)]

----------------------------------------------------------------------------
(* class Skeleton *)

\* dict.get(key, None) on Skeleton.bones, as a reference
Get(b, key) == IF key \in DOMAIN b THEN key ELSE NoKey

\* the mutant of the duplicate test: a bone whose name is present replaces
\* the entry (last seen wins)
IsDuplicateNever(b, unique_name) == FALSE

\* `unique_name in self.bones`
IsDuplicate(b, unique_name) == unique_name \in DOMAIN b

RECURSIVE InsertLoop(_, _, _, _, _, _)
\* addArmature, first loop: `for bone in armature.bones`, from position i
\* of the enumeration; the state of the loop is the dictionary and the
\* insertion history
InsertLoop(b, ord, enum, i, prefix, offset) ==
    IF i > Len(enum)
    THEN [bones |-> b, order |-> ord]
    ELSE LET bone        == enum[i]
             unique_name == prefix \o SceneBones[bone].name
         IN  IF IsDuplicate(b, unique_name)
             THEN InsertLoop(b, ord, enum, i + 1, prefix, offset)
             ELSE InsertLoop(
                    [k \in DOMAIN b \cup {unique_name} |->
                        IF k = unique_name
                        THEN BoneProxy(bone, Cardinality(DOMAIN b), prefix, offset)
                        ELSE b[k]],
                    IF unique_name \in DOMAIN b THEN ord ELSE Append(ord, unique_name),
                    enum, i + 1, prefix, offset)

\* the key looked up for a proxy's parent: `prefix + proxy.getParentName()`,
\* prefix being the prefix of the armature of this call
ParentKey(prefix, proxy) == prefix \o getParentName(proxy)

RECURSIVE ResolveLoop(_, _, _, _)
\* addArmature, second loop: `for name, proxy in self.bones.items()`, from
\* position i of the iteration order iter; an exception ends the call and
\* leaves the links set so far
ResolveLoop(b, iter, i, prefix) ==
    IF i > Len(iter)
    THEN [bones |-> b, ret |-> "True"]
    ELSE LET proxy == b[iter[i]]
         IN  IF ~hasParent(proxy)
             THEN ResolveLoop(b, iter, i + 1, prefix)
             ELSE LET parent == Get(b, ParentKey(prefix, proxy))
                      r      == setParentProxy(b, proxy, parent)
                  IN  IF r.ret = "AttributeError"
                      THEN [bones |-> b, ret |-> "AttributeError"]
                      ELSE ResolveLoop([b EXCEPT ![iter[i]] = r.self],
                                       iter, i + 1, prefix)

\* the prefix of a call: `name + '.'`, name defaulting to armature.name
Prefix(armature, name) ==
    (IF name = NoName THEN SceneArmatures[armature].name ELSE name) \o "."

\* the mutant of the armature test: an armature without bones is refused too
IsAbsentOrEmpty(armature) ==
    armature = NoArmature \/ SceneArmatures[armature].bones = {}

\* `armature is None`
IsAbsent(armature) == armature = NoArmature

\* Skeleton.addArmature.  defined: the attribute self.bones exists (both
\* loops read it, so without it the call raises AttributeError before it
\* changes anything); enum: the enumeration order of armature.bones; iter:
\* the iteration order of the dictionary in the second loop.
addArmature(defined, b, ord, armature, enum, name, offset, iter) ==
    IF IsAbsent(armature)
    THEN [bones |-> b, order |-> ord, ret |-> "False"]
    ELSE IF ~defined
    THEN [bones |-> b, order |-> ord, ret |-> "AttributeError"]
    ELSE LET prefix == Prefix(armature, name)
             ins    == InsertLoop(b, ord, enum, 1, prefix, offset)
             res    == ResolveLoop(ins.bones, iter, 1, prefix)
         IN  [bones |-> res.bones, order |-> ins.order, ret |-> res.ret]

\* Skeleton.getBonesCount
getBonesCount(b) == Cardinality(DOMAIN b)

\* Skeleton.getBoneIndex
getBoneIndex(b, armature_name, bone_name) ==
    LET proxy == Get(b, armature_name \o "." \o bone_name)
    IN  IF proxy # NoKey THEN b[proxy].index ELSE -1

RECURSIVE SortedByIndex(_, _)
\* sorted(..., key=attrgetter('index')) of the proxies stored under keys S
SortedByIndex(b, S) ==
    IF S = {}
    THEN <<>>
    ELSE LET k == CHOOSE k \in S : \A j \in S : b[k].index <= b[j].index
         IN  <<k>> \o SortedByIndex(b, S \ {k})

\* Skeleton.iterBones: the proxies sorted by index, as their keys
iterBones(b) == SortedByIndex(b, DOMAIN b)

\* Skeleton.render: the bone records in iterBones order (joined by the
\* separator in the source)
render(b) ==
    LET s == iterBones(b) IN [i \in 1..Len(s) |-> renderBone(b, b[s[i]])]

----------------------------------------------------------------------------
(* The state machine: one Skeleton object and the calls made on it *)

NoCall ==
    [op |-> "none", armature |-> NoArmature, enum |-> <<>>, name |-> NoName,
     ret |-> "None", before |-> <<>>]

\* the arguments and the result of a call
Brief(call) == [op |-> call.op, armature |-> call.armature, name |-> call.name,
                ret |-> call.ret]

\* The iteration orders the dictionary can have in the second loop of a call.
\* The loop skips an entry without a parent wherever it comes, so an order is
\* an order of the entries that declare a parent.
IterOrders(b, ord, armature, enum, name, offset) ==
    IF IsAbsent(armature)
    THEN {<<>>}
    ELSE LET ins == InsertLoop(b, ord, enum, 1, Prefix(armature, name), offset).bones
         IN  Perms({k \in DOMAIN ins : hasParent(ins[k])})

\* the enumeration orders of armature.bones
EnumOrders(armature) ==
    IF armature = NoArmature THEN {<<>>} ELSE Perms(SceneArmatures[armature].bones)

Init ==
    /\ pc = "new"
    /\ bones = <<>>
    /\ order = <<>>
    /\ ncalls = 0
    /\ last = NoCall
    /\ prev = Brief(NoCall)
    /\ out = <<>>

\* Skeleton.__init__(armature, name, layers, flipyz): with an armature it
\* calls addArmature(armature, name, layers, flipyz) before self.bones is
\* assigned, so layers arrives as offset; an exception leaves no object
Construct(armature, enum, name, layers) ==
    /\ pc = "new"
    /\ LET r == IF armature # NoArmature
                THEN addArmature(FALSE, bones, order, armature, enum, name, layers, <<>>)
                ELSE [bones |-> bones, order |-> order, ret |-> "None"]
       IN  /\ pc' = IF r.ret = "AttributeError" THEN "failed" ELSE "ready"
           /\ bones' = IF r.ret = "AttributeError" THEN bones ELSE <<>>
           /\ order' = <<>>
           /\ last' = [op |-> "init", armature |-> armature, enum |-> enum,
                       name |-> name,
                       ret |-> IF r.ret = "AttributeError" THEN r.ret ELSE "None",
                       before |-> <<>>]
    /\ prev' = Brief(last)
    /\ UNCHANGED <<ncalls, out>>

\* a call of Skeleton.addArmature(armature, name, offset)
AddArmature(armature, enum, name, offset, iter) ==
    /\ pc = "ready"
    /\ ncalls < MaxCalls
    /\ getBonesCount(bones) + Len(enum) <= MaxBones
    /\ LET r == addArmature(TRUE, bones, order, armature, enum, name, offset, iter)
       IN  /\ bones' = r.bones
           /\ order' = r.order
           /\ last' = [op |-> "addArmature", armature |-> armature, enum |-> enum,
                       name |-> name, ret |-> r.ret, before |-> bones]
    /\ prev' = Brief(last)
    /\ ncalls' = ncalls + 1
    /\ out' = <<>>
    /\ UNCHANGED pc

\* a call of Skeleton.render()
Render ==
    /\ pc = "ready"
    /\ out' = render(bones)
    /\ UNCHANGED <<pc, bones, order, ncalls, last, prev>>

Next ==
    \/ \E armature \in Armatures \cup {NoArmature}, name \in NameArgs :
         \E enum \in EnumOrders(armature) :
            Construct(armature, enum, name, NoneM)
    \/ \E armature \in Armatures \cup {NoArmature}, name \in NameArgs,
          offset \in OffsetArgs :
         \E enum \in EnumOrders(armature) :
            \E iter \in IterOrders(bones, order, armature, enum, name, offset) :
               AddArmature(armature, enum, name, offset, iter)
    \/ Render

Spec == Init /\ [][Next]_vars

----------------------------------------------------------------------------
(* Vocabulary of the properties *)

\* the last call was addArmature with an armature
Ingested == last.op = "addArmature" /\ last.armature # NoArmature

\* the namespace prefix of the last call
LastPrefix == Prefix(last.armature, last.name)

\* the bones of an armature
BonesOf(armature) == SceneArmatures[armature].bones

\* the qualified names the bones of the last call map to
OfferedNames == {LastPrefix \o SceneBones[x].name : x \in BonesOf(last.armature)}

\* the first bone of the last call's enumeration that maps to key
FirstOffered(key) ==
    LET i == CHOOSE i \in 1..Len(last.enum) :
                /\ LastPrefix \o SceneBones[last.enum[i]].name = key
                /\ \A j \in 1..(i - 1) : LastPrefix \o SceneBones[last.enum[j]].name # key
    IN  last.enum[i]

\* the bone names of an armature are pairwise distinct
DistinctNames(armature) ==
    \A x, y \in BonesOf(armature) : x # y => SceneBones[x].name # SceneBones[y].name

\* root offsets a proxy can be given
RootOffsets ==
    {Identity4, OffsetFlip,
     << <<-1, 0, 0, 0>>, <<0, -1, 0, 5>>, <<0, 0, 1, -2>>, <<0, 0, 0, 1>> >>}

\* the prefixes a call can have
Prefixes == {"A.", "B.", "E."}

----------------------------------------------------------------------------
(* Properties *)

\* C1: the indices of the bones in the graph are pairwise distinct integers
\* in [0, boneCount); the k-th bone inserted (k counted from 1) has index
\* k - 1; and an addArmature call leaves the index of every bone that was in
\* the graph before it unchanged, whether or not the call skipped duplicates.
C1_IndexUniqueStable ==
    /\ \A k \in DOMAIN bones : bones[k].index \in 0..(getBonesCount(bones) - 1)
    /\ \A j, k \in DOMAIN bones : j # k => bones[j].index # bones[k].index
    /\ Len(order) = getBonesCount(bones)
    /\ \A i \in 1..Len(order) : order[i] \in DOMAIN bones /\ bones[order[i]].index = i - 1
    /\ last.op = "addArmature" =>
          \A k \in DOMAIN last.before :
             k \in DOMAIN bones /\ bones[k].index = last.before[k].index

\* C1 witness: a second call skipped a duplicate and inserted a new bone
C1_Witness ==
    /\ Ingested
    /\ ncalls = 2
    /\ OfferedNames \cap DOMAIN last.before # {}
    /\ getBonesCount(bones) > getBonesCount(last.before)
    /\ last.before # <<>>

\* C2: after addArmature, every bone B of the armature that the graph holds
\* under the call's prefix, and whose declared parent P is a bone of the same
\* armature that the graph holds under the call's prefix too, has P's index as
\* its parent index; a bone with no declared parent has parent index -1.
C2_ParentResolved ==
    Ingested =>
       \A x \in BonesOf(last.armature) :
          LET key  == LastPrefix \o SceneBones[x].name
              px   == SceneBones[x].parent
              pkey == LastPrefix \o SceneBones[px].name
          IN  (key \in DOMAIN bones /\ bones[key].bone = x) =>
                 /\ px = NoBone => getParentIndex(bones, bones[key]) = -1
                 /\ (/\ px # NoBone
                     /\ px \in BonesOf(last.armature)
                     /\ pkey \in DOMAIN bones
                     /\ bones[pkey].bone = px)
                    => getParentIndex(bones, bones[key]) = bones[pkey].index

\* C3: two successive addArmature calls on a new Skeleton, with armatures
\* whose bone names are distinct, under distinct names, the first armature
\* holding a bone that declares a parent: the second call returns True and
\* the bone count is the sum of the two armatures' bone counts.
C3_MergeCompletes ==
    (/\ Ingested
     /\ ncalls = 2
     /\ prev.op = "addArmature"
     /\ prev.armature # NoArmature
     /\ Prefix(prev.armature, prev.name) # LastPrefix
     /\ DistinctNames(prev.armature)
     /\ DistinctNames(last.armature)
     /\ \E x \in BonesOf(prev.armature) : SceneBones[x].parent # NoBone)
    => /\ last.ret = "True"
       /\ getBonesCount(bones) =
             Cardinality(BonesOf(prev.armature)) + Cardinality(BonesOf(last.armature))

\* C4: when a bone in the graph declares a parent whose qualified name under
\* the call's prefix is not a key of the graph, addArmature raises nothing and
\* returns True, and the bone is in the graph with no parent link and parent
\* index -1.
C4_UnresolvableIsRoot ==
    Ingested =>
       \A k \in DOMAIN bones :
          (hasParent(bones[k]) /\ ParentKey(LastPrefix, bones[k]) \notin DOMAIN bones)
          => /\ last.ret = "True"
             /\ bones[k].parent_proxy = NoKey
             /\ getParentIndex(bones, bones[k]) = -1

\* C5: a bone offered to addArmature whose qualified name is already in the
\* graph is skipped and the remaining bones are still ingested: after the
\* call the keys are the keys before plus the offered names, the count rises
\* by one per new name, an entry that was there keeps its bone and index, and
\* a new entry holds the first bone enumerated under its name.
C5_DuplicateSkipped ==
    Ingested =>
       /\ DOMAIN bones = DOMAIN last.before \cup OfferedNames
       /\ getBonesCount(bones) =
             getBonesCount(last.before) + Cardinality(OfferedNames \ DOMAIN last.before)
       /\ \A k \in DOMAIN last.before :
             /\ bones[k].bone = last.before[k].bone
             /\ bones[k].index = last.before[k].index
       /\ \A k \in OfferedNames \ DOMAIN last.before : bones[k].bone = FirstOffered(k)

\* C5 witness: a call offered a bone under a name held by another bone, and
\* inserted another bone enumerated after it
C5_Witness ==
    /\ Ingested
    /\ \E i, j \in 1..Len(last.enum) :
          /\ i < j
          /\ LastPrefix \o SceneBones[last.enum[i]].name \in DOMAIN last.before
          /\ last.before[LastPrefix \o SceneBones[last.enum[i]].name].bone # last.enum[i]
          /\ LastPrefix \o SceneBones[last.enum[j]].name \notin DOMAIN last.before

\* C6 as stated: addArmature returns False and leaves the graph unchanged
\* whenever the armature is absent or its bone collection is empty.
C6_AbsentOrEmptyRefused ==
    (last.op = "addArmature" /\ (last.armature = NoArmature \/ BonesOf(last.armature) = {}))
    => last.ret = "False" /\ bones = last.before

\* C6 amended: addArmature returns False and leaves the graph unchanged
\* whenever the armature is absent; an armature with an empty bone collection
\* is not refused: the call goes on to the resolution pass, does not return
\* False, and inserts nothing.
C6_AbsentRefused ==
    last.op = "addArmature" =>
       /\ last.armature = NoArmature => last.ret = "False" /\ bones = last.before
       /\ (last.armature # NoArmature /\ BonesOf(last.armature) = {})
          => last.ret # "False" /\ DOMAIN bones = DOMAIN last.before

\* C6 witness: addArmature(None) on a graph that holds linked bones
C6_Witness ==
    /\ last.op = "addArmature"
    /\ last.armature = NoArmature
    /\ last.ret = "False"
    /\ \E k \in DOMAIN bones : bones[k].parent_proxy # NoKey

\* C7: Skeleton() has bone count 0; Skeleton(armature) completes and holds
\* the armature's bones, one per distinct bone name.
C7_Constructed ==
    (last.op = "init" /\ pc # "new") =>
       /\ pc = "ready"
       /\ getBonesCount(bones) =
             IF last.armature = NoArmature
             THEN 0
             ELSE Cardinality({SceneBones[x].name : x \in BonesOf(last.armature)})

\* C8: for a bone that declares a parent, the rendered position, Euler
\* rotation and quaternion are the same under any two root offsets.
C8_OffsetOnlyAtRoots ==
    \A k \in DOMAIN bones :
       hasParent(bones[k]) =>
          \A o1, o2 \in RootOffsets :
             LET r1 == renderBone(bones, [bones[k] EXCEPT !.offset = o1])
                 r2 == renderBone(bones, [bones[k] EXCEPT !.offset = o2])
             IN  r1.pos = r2.pos /\ r1.rot = r2.rot /\ r1.rotq = r2.rotq

\* C8 witness: a rendered graph holds a bone with a parent and a root bone,
\* both given a root offset other than the identity, and the root's record
\* does depend on the offset
C8_Witness ==
    /\ out # <<>>
    /\ \E k \in DOMAIN bones : hasParent(bones[k]) /\ bones[k].offset = OffsetFlip
    /\ \E k \in DOMAIN bones :
          /\ ~hasParent(bones[k])
          /\ bones[k].offset = OffsetFlip
          /\ renderBone(bones, bones[k]).pos
                # renderBone(bones, [bones[k] EXCEPT !.offset = Identity4]).pos

\* C9: for every bone in the graph that declares a parent and every candidate
\* the resolution pass of a call can look up for it, setParentProxy returns
\* True and stores the link if the candidate's source bone is the declared
\* parent, and otherwise returns False and leaves the link unset.
C9_SetParentProxyIff ==
    \A k \in DOMAIN bones :
       hasParent(bones[k]) =>
          \A prefix \in Prefixes :
             LET candidate == Get(bones, ParentKey(prefix, bones[k]))
                 r         == setParentProxy(bones, bones[k], candidate)
             IN  IF /\ candidate # NoKey
                    /\ bones[candidate].bone = SceneBones[bones[k].bone].parent
                 THEN r.ret = "True" /\ r.self.parent_proxy = candidate
                 ELSE r.ret = "False" /\ r.self.parent_proxy = NoKey

\* C10: every bone's resolved parent has the bone's own prefix, and an
\* addArmature call does not change the parent index of a bone that was in
\* the graph before it.
C10_SameNamespace ==
    /\ \A k \in DOMAIN bones :
          bones[k].parent_proxy # NoKey
          => bones[bones[k].parent_proxy].prefix = bones[k].prefix
    /\ last.op = "addArmature" =>
          \A k \in DOMAIN last.before :
             getParentIndex(bones, bones[k]) = getParentIndex(last.before, last.before[k])

====
